---- MODULE Spec2Model ----
(***************************************************************************)
(* Model of the customer CRUD service of main.go: the map `customers`, the *)
(* five handlers getCustomers, getCustomer, addCustomer, updateCustomer    *)
(* and deleteCustomer, the JSON decoding of request bodies and the JSON    *)
(* encoding (with omitempty) of responses.                                 *)
(*                                                                         *)
(* Spec     : requests are served one after the other, one action per      *)
(*            handler.                                                     *)
(* SpecConc : two goroutines serve addCustomer concurrently, one action    *)
(*            per statement that touches the shared map.                   *)
(***************************************************************************)
EXTENDS Integers, Sequences, FiniteSets, TLC

VARIABLES customers, req, resp, pc, customer, exist, wstatus, wbody, crashed

vars == <<customers, req, resp, pc, customer, exist, wstatus, wbody, crashed>>
seqVars == <<req, resp>>
concVars == <<pc, customer, exist, wstatus, wbody, crashed>>

\* Largest customer id that requests carry (ids range over 0..MaxId).
MaxId == 4

Ids == 0 .. MaxId

Procs == {1, 2}

StatusOK == 200
StatusCreated == 201
StatusBadRequest == 400
StatusNotFound == 404
StatusConflict == 409

----------------------------------------------------------------------------
(* The Customer struct and the seeded map                                   *)

Customer(id, name, role, email, phone, contacted) ==
    [Id |-> id, Name |-> name, Role |-> role, Email |-> email,
     Phone |-> phone, IsContacted |-> contacted]

\* Customer{} : every field holds its zero value.
ZeroCustomer == Customer(0, "", "", "", "", FALSE)

SeedCustomers ==
    (1 :> Customer(1, "John Doe", "Admin", "john.doe@gmail.com", "1234567890", FALSE))
    @@ (2 :> Customer(2, "Jane Doe", "User", "jane.doe@gmail.com", "0987654321", FALSE))
    @@ (3 :> Customer(3, "John Smith", "User", "john.smith@gmail.com", "1234567890", FALSE))

----------------------------------------------------------------------------
(* JSON: an object on the wire is a sequence of <<key, value>> members.     *)

\* json.Marshal of a Customer: the tags say omitempty on every field, so a
\* member is written only when the field differs from its zero value.
Encode(c) ==
    (IF c.Id # 0 THEN << <<"id", c.Id>> >> ELSE << >>)
    \o (IF c.Name # "" THEN << <<"name", c.Name>> >> ELSE << >>)
    \o (IF c.Role # "" THEN << <<"role", c.Role>> >> ELSE << >>)
    \o (IF c.Email # "" THEN << <<"email", c.Email>> >> ELSE << >>)
    \o (IF c.Phone # "" THEN << <<"phone", c.Phone>> >> ELSE << >>)
    \o (IF c.IsContacted THEN << <<"contacted", TRUE>> >> ELSE << >>)

SetField(c, m) ==
    CASE m[1] = "id" -> [c EXCEPT !.Id = m[2]]
      [] m[1] = "name" -> [c EXCEPT !.Name = m[2]]
      [] m[1] = "role" -> [c EXCEPT !.Role = m[2]]
      [] m[1] = "email" -> [c EXCEPT !.Email = m[2]]
      [] m[1] = "phone" -> [c EXCEPT !.Phone = m[2]]
      [] m[1] = "contacted" -> [c EXCEPT !.IsContacted = m[2]]
      [] OTHER -> c

RECURSIVE Decode(_, _)
\* json.Unmarshal into c: the members are applied from left to right, a field
\* without a member keeps the value it has in c.
Decode(obj, c) ==
    IF obj = << >> THEN c ELSE Decode(Tail(obj), SetField(c, Head(obj)))

\* readCustomerFromRequestBody: a body that is not well-formed JSON is an
\* error, otherwise the members are decoded into a fresh (zero) Customer.
readCustomerFromRequestBody(r) ==
    IF ~r.wellFormed
    THEN [err |-> TRUE, customer |-> ZeroCustomer]
    ELSE [err |-> FALSE, customer |-> Decode(r.obj, ZeroCustomer)]

----------------------------------------------------------------------------
(* strconv.ParseUint(s, 10, 64) on a text given as a sequence of characters *)

Digits == <<"0", "1", "2", "3", "4", "5", "6", "7", "8", "9">>

IsDigit(ch) == \E d \in 1 .. 10 : Digits[d] = ch

DigitVal(ch) == (CHOOSE d \in 1 .. 10 : Digits[d] = ch) - 1

RECURSIVE ParseDigits(_, _)
ParseDigits(s, acc) ==
    IF s = << >> THEN acc
    ELSE ParseDigits(Tail(s), (acc * 10) + DigitVal(Head(s)))

ParseUint(s) ==
    IF s = << >> \/ \E i \in 1 .. Len(s) : ~IsDigit(s[i])
    THEN [err |-> TRUE, val |-> 0]
    ELSE [err |-> FALSE, val |-> ParseDigits(s, 0)]

----------------------------------------------------------------------------
(* Enumeration of the map                                                   *)

\* The orders in which `for _, value := range customers` can visit the map.
RangeOrders(store) ==
    {o \in [1 .. Cardinality(DOMAIN store) -> DOMAIN store] :
        \A i, j \in DOMAIN o : i # j => o[i] # o[j]}

\* getCustomerSlices for one iteration order of the map.
getCustomerSlices(store, order) == [i \in DOMAIN order |-> store[order[i]]]

\* json.NewEncoder(w).Encode([]Customer)
EncodeList(list) == [i \in DOMAIN list |-> Encode(list[i])]

----------------------------------------------------------------------------
(* Requests and responses                                                   *)

NoRequest == [method |-> "none", route |-> "none", hasId |-> FALSE, givenId |-> << >>,
              wellFormed |-> TRUE, obj |-> << >>]

Request(method, route, hasId, givenId, wellFormed, obj) ==
    [method |-> method, route |-> route, hasId |-> hasId, givenId |-> givenId,
     wellFormed |-> wellFormed, obj |-> obj]

NoResponse == [status |-> 0, kind |-> "none", msg |-> << >>, list |-> << >>]

\* A response whose body is a JSON string.
MsgResponse(status, msg) ==
    [status |-> status, kind |-> "string", msg |-> msg, list |-> << >>]

\* A response whose body is a JSON array of customers.
ListResponse(status, store, order) ==
    [status |-> status, kind |-> "array", msg |-> << >>,
     list |-> EncodeList(getCustomerSlices(store, order))]

\* A response whose body is one JSON object.
ObjectResponse(status, c) ==
    [status |-> status, kind |-> "object", msg |-> << >>, list |-> <<Encode(c)>>]

\* A response with a status line and no body.
EmptyResponse(status) ==
    [status |-> status, kind |-> "empty", msg |-> << >>, list |-> << >>]

ParseFailedMsg(givenId) ==
    <<"Failed to parse the given id: ">> \o givenId \o <<". ", "invalid syntax">>

NotFoundMsg(givenId) == <<"Customer with id: ">> \o givenId \o <<" not found.">>

BodyFailedMsg == <<"Failed to read customer data from the request body. ">>

ZeroIdMsg == <<"Invalid customer id 0. Customer id should be greater than 0.">>

MismatchMsg == <<"Customer id in the request body does not match the id in the URL path.">>

----------------------------------------------------------------------------
(* Inputs                                                                   *)

IdText(n) == <<Digits[n + 1]>>

\* Path variables: the decimal ids, one with a leading zero, one that is no
\* number.
PathTexts == {IdText(n) : n \in Ids} \cup {<<"0", "3">>, <<"a", "b", "c">>}

\* The object {"id":n,"name":"New Name","role":"User","contacted":true}: it
\* has no email and no phone member.
NewObject(n) ==
    << <<"id", n>>, <<"name", "New Name">>, <<"role", "User">>, <<"contacted", TRUE>> >>

\* The object of the README's create example, which has no contacted member.
ReadmeObject(n) ==
    << <<"id", n>>, <<"name", "Gilang">>, <<"role", "User">>,
       <<"email", "gilang@gmail.com">>, <<"phone", "098763454321">> >>

\* Request bodies: an object for every id (0 included) and one without an id
\* member.
Objects == {NewObject(n) : n \in Ids} \cup {<< <<"name", "X">> >>}

\* Bodies of the concurrent create requests: two different objects per id.
ConcObjects == {NewObject(n) : n \in Ids} \cup {ReadmeObject(n) : n \in Ids \ {0}}

ConcBodies == [wellFormed : {TRUE}, obj : ConcObjects]

Bodies == [wellFormed : {TRUE}, obj : Objects] \cup {[wellFormed |-> FALSE, obj |-> << >>]}

----------------------------------------------------------------------------
Init ==
    /\ customers = SeedCustomers
    /\ req = NoRequest
    /\ resp = NoResponse
    /\ pc = [p \in Procs |-> "idle"]
    /\ customer = [p \in Procs |-> ZeroCustomer]
    /\ exist = [p \in Procs |-> FALSE]
    /\ wstatus = [p \in Procs |-> 0]
    /\ wbody = [p \in Procs |-> {}]
    /\ crashed = FALSE

----------------------------------------------------------------------------
(* The handlers, one request at a time                                      *)

\* GET /customers
getCustomers ==
    /\ req = NoRequest
    /\ req' = Request("GET", "/customers", FALSE, << >>, TRUE, << >>)
    /\ \E order \in RangeOrders(customers) :
          resp' = ListResponse(StatusOK, customers, order)
    /\ UNCHANGED <<customers, concVars>>

\* GET /customers/{id}
getCustomer ==
    \E hasId \in BOOLEAN, givenId \in PathTexts :
      /\ req = NoRequest
      /\ hasId \/ givenId = IdText(0)
      /\ req' = Request("GET", "/customers/{id}", hasId, givenId, TRUE, << >>)
      /\ LET parsed == ParseUint(givenId)
             id == parsed.val
         IN  resp' = IF ~hasId THEN EmptyResponse(StatusBadRequest)
                     ELSE IF parsed.err
                     THEN MsgResponse(StatusBadRequest, ParseFailedMsg(givenId))
                     ELSE IF id \in DOMAIN customers
                     THEN ObjectResponse(StatusOK, customers[id])
                     ELSE MsgResponse(StatusNotFound, NotFoundMsg(givenId))
      /\ UNCHANGED <<customers, concVars>>

\* What a mutating handler did: the map it leaves, the status line, the body
\* (a JSON string, or the JSON array that enumerates `listed`).
Outcome(store, status, kind, msg, listed) ==
    [store |-> store, status |-> status, kind |-> kind, msg |-> msg, listed |-> listed]

Respond(out, order) ==
    CASE out.kind = "array" -> ListResponse(out.status, out.listed, order)
      [] out.kind = "string" -> MsgResponse(out.status, out.msg)
      [] OTHER -> EmptyResponse(out.status)

\* customers[id] = c
MapAssign(store, id, c) == [k \in DOMAIN store \cup {id} |-> IF k = id THEN c ELSE store[k]]

\* delete(customers, id)
MapDelete(store, id) == [k \in DOMAIN store \ {id} |-> store[k]]

\* addCustomer as it would be if the conflict branch also assigned the record.
addCustomerBodyOverwrites(store, r) ==
    LET read == readCustomerFromRequestBody(r)
        c == read.customer
    IN  IF read.err
        THEN Outcome(store, StatusBadRequest, "string", BodyFailedMsg, store)
        ELSE IF c.Id = 0
        THEN Outcome(store, StatusBadRequest, "string", ZeroIdMsg, store)
        ELSE LET added == MapAssign(store, c.Id, c)
             IN  IF c.Id \in DOMAIN store
                 THEN Outcome(added, StatusConflict, "array", << >>, added)
                 ELSE Outcome(added, StatusCreated, "array", << >>, added)

\* addCustomer as it would be without the existence check.
addCustomerBodyNoExistCheck(store, r) ==
    LET read == readCustomerFromRequestBody(r)
        c == read.customer
    IN  IF read.err
        THEN Outcome(store, StatusBadRequest, "string", BodyFailedMsg, store)
        ELSE IF c.Id = 0
        THEN Outcome(store, StatusBadRequest, "string", ZeroIdMsg, store)
        ELSE LET added == MapAssign(store, c.Id, c)
             IN  Outcome(added, StatusCreated, "array", << >>, added)

\* addCustomer as it would be without the check for id 0.
addCustomerBodyNoZeroCheck(store, r) ==
    LET read == readCustomerFromRequestBody(r)
        c == read.customer
    IN  IF read.err
        THEN Outcome(store, StatusBadRequest, "string", BodyFailedMsg, store)
        ELSE IF c.Id \in DOMAIN store
        THEN Outcome(store, StatusConflict, "array", << >>, store)
        ELSE LET added == MapAssign(store, c.Id, c)
             IN  Outcome(added, StatusCreated, "array", << >>, added)

\* The body of addCustomer on map `store` and request r.
addCustomerBody(store, r) ==
    LET read == readCustomerFromRequestBody(r)
        c == read.customer
    IN  IF read.err
        THEN Outcome(store, StatusBadRequest, "string", BodyFailedMsg, store)
        ELSE IF c.Id = 0
        THEN Outcome(store, StatusBadRequest, "string", ZeroIdMsg, store)
        ELSE IF c.Id \in DOMAIN store
        THEN Outcome(store, StatusConflict, "array", << >>, store)
        ELSE LET added == MapAssign(store, c.Id, c)
             IN  Outcome(added, StatusCreated, "array", << >>, added)

\* POST /customers
addCustomer ==
    \E b \in Bodies :
      LET r == Request("POST", "/customers", FALSE, << >>, b.wellFormed, b.obj)
          out == addCustomerBody(customers, r)
      IN  /\ req = NoRequest
          /\ req' = r
          /\ customers' = out.store
          /\ \E order \in RangeOrders(out.listed) : resp' = Respond(out, order)
          /\ UNCHANGED concVars

\* updateCustomer as it would be without the comparison of body id and path id.
updateCustomerBodyNoMismatchCheck(store, r) ==
    LET parsed == ParseUint(r.givenId)
        id == parsed.val
        read == readCustomerFromRequestBody(r)
        c == read.customer
    IN  IF ~r.hasId
        THEN Outcome(store, StatusBadRequest, "empty", << >>, store)
        ELSE IF parsed.err
        THEN Outcome(store, StatusBadRequest, "string", ParseFailedMsg(r.givenId), store)
        ELSE IF read.err
        THEN Outcome(store, StatusBadRequest, "string", BodyFailedMsg, store)
        ELSE IF id \in DOMAIN store
        THEN LET replaced == MapAssign(store, id, c)
             IN  Outcome(replaced, StatusOK, "array", << >>, replaced)
        ELSE Outcome(store, StatusNotFound, "string", NotFoundMsg(r.givenId), store)

\* updateCustomer as it would be with the lookup before the comparison of body
\* id and path id.
updateCustomerBodyLookupFirst(store, r) ==
    LET parsed == ParseUint(r.givenId)
        id == parsed.val
        read == readCustomerFromRequestBody(r)
        c == read.customer
    IN  IF ~r.hasId
        THEN Outcome(store, StatusBadRequest, "empty", << >>, store)
        ELSE IF parsed.err
        THEN Outcome(store, StatusBadRequest, "string", ParseFailedMsg(r.givenId), store)
        ELSE IF read.err
        THEN Outcome(store, StatusBadRequest, "string", BodyFailedMsg, store)
        ELSE IF id \notin DOMAIN store
        THEN Outcome(store, StatusNotFound, "string", NotFoundMsg(r.givenId), store)
        ELSE IF c.Id # id
        THEN Outcome(store, StatusBadRequest, "string", MismatchMsg, store)
        ELSE LET replaced == MapAssign(store, id, c)
             IN  Outcome(replaced, StatusOK, "array", << >>, replaced)

\* updateCustomer as it would be if the body were decoded into the stored
\* record instead of a fresh one.
updateCustomerBodyMerges(store, r) ==
    LET parsed == ParseUint(r.givenId)
        id == parsed.val
        read == readCustomerFromRequestBody(r)
        c == read.customer
    IN  IF ~r.hasId
        THEN Outcome(store, StatusBadRequest, "empty", << >>, store)
        ELSE IF parsed.err
        THEN Outcome(store, StatusBadRequest, "string", ParseFailedMsg(r.givenId), store)
        ELSE IF read.err
        THEN Outcome(store, StatusBadRequest, "string", BodyFailedMsg, store)
        ELSE IF c.Id # id
        THEN Outcome(store, StatusBadRequest, "string", MismatchMsg, store)
        ELSE IF id \in DOMAIN store
        THEN LET replaced == MapAssign(store, id, Decode(r.obj, store[id]))
             IN  Outcome(replaced, StatusOK, "array", << >>, replaced)
        ELSE Outcome(store, StatusNotFound, "string", NotFoundMsg(r.givenId), store)

\* The body of updateCustomer on map `store` and request r.
updateCustomerBody(store, r) ==
    LET parsed == ParseUint(r.givenId)
        id == parsed.val
        read == readCustomerFromRequestBody(r)
        c == read.customer
    IN  IF ~r.hasId
        THEN Outcome(store, StatusBadRequest, "empty", << >>, store)
        ELSE IF parsed.err
        THEN Outcome(store, StatusBadRequest, "string", ParseFailedMsg(r.givenId), store)
        ELSE IF read.err
        THEN Outcome(store, StatusBadRequest, "string", BodyFailedMsg, store)
        ELSE IF c.Id # id
        THEN Outcome(store, StatusBadRequest, "string", MismatchMsg, store)
        ELSE IF id \in DOMAIN store
        THEN LET replaced == MapAssign(store, id, c)
             IN  Outcome(replaced, StatusOK, "array", << >>, replaced)
        ELSE Outcome(store, StatusNotFound, "string", NotFoundMsg(r.givenId), store)

\* PUT /customers/{id}
updateCustomer ==
    \E hasId \in BOOLEAN, givenId \in PathTexts, b \in Bodies :
      /\ req = NoRequest
      /\ hasId \/ givenId = IdText(0)
      /\ LET r == Request("PUT", "/customers/{id}", hasId, givenId, b.wellFormed, b.obj)
             out == updateCustomerBody(customers, r)
         IN  /\ req' = r
             /\ customers' = out.store
             /\ \E order \in RangeOrders(out.listed) : resp' = Respond(out, order)
             /\ UNCHANGED concVars

\* deleteCustomer as it would be if deleting an absent id were a success.
deleteCustomerBodyIdempotent(store, r) ==
    LET parsed == ParseUint(r.givenId)
        id == parsed.val
    IN  IF ~r.hasId
        THEN Outcome(store, StatusBadRequest, "empty", << >>, store)
        ELSE IF parsed.err
        THEN Outcome(store, StatusBadRequest, "string", ParseFailedMsg(r.givenId), store)
        ELSE LET removed == MapDelete(store, id)
             IN  Outcome(removed, StatusOK, "array", << >>, removed)

\* deleteCustomer as it would be if the list were taken before the deletion.
deleteCustomerBodyListsFirst(store, r) ==
    LET parsed == ParseUint(r.givenId)
        id == parsed.val
    IN  IF ~r.hasId
        THEN Outcome(store, StatusBadRequest, "empty", << >>, store)
        ELSE IF parsed.err
        THEN Outcome(store, StatusBadRequest, "string", ParseFailedMsg(r.givenId), store)
        ELSE IF id \in DOMAIN store
        THEN Outcome(MapDelete(store, id), StatusOK, "array", << >>, store)
        ELSE Outcome(store, StatusNotFound, "string", NotFoundMsg(r.givenId), store)

\* The body of deleteCustomer on map `store` and request r.
deleteCustomerBody(store, r) ==
    LET parsed == ParseUint(r.givenId)
        id == parsed.val
    IN  IF ~r.hasId
        THEN Outcome(store, StatusBadRequest, "empty", << >>, store)
        ELSE IF parsed.err
        THEN Outcome(store, StatusBadRequest, "string", ParseFailedMsg(r.givenId), store)
        ELSE IF id \in DOMAIN store
        THEN LET removed == MapDelete(store, id)
             IN  Outcome(removed, StatusOK, "array", << >>, removed)
        ELSE Outcome(store, StatusNotFound, "string", NotFoundMsg(r.givenId), store)

\* DELETE /customers/{id}
deleteCustomer ==
    \E hasId \in BOOLEAN, givenId \in PathTexts :
      /\ req = NoRequest
      /\ hasId \/ givenId = IdText(0)
      /\ LET r == Request("DELETE", "/customers/{id}", hasId, givenId, TRUE, << >>)
             out == deleteCustomerBody(customers, r)
         IN  /\ req' = r
             /\ customers' = out.store
             /\ \E order \in RangeOrders(out.listed) : resp' = Respond(out, order)
             /\ UNCHANGED concVars

\* The handler has returned and the client has read the response; the client
\* sends its next request afterwards.
Return ==
    /\ req # NoRequest
    /\ req' = NoRequest
    /\ resp' = NoResponse
    /\ UNCHANGED <<customers, concVars>>

Next ==
    getCustomers \/ getCustomer \/ addCustomer \/ updateCustomer \/ deleteCustomer \/ Return

Spec == Init /\ [][Next]_vars

----------------------------------------------------------------------------
(* addCustomer served by two goroutines at once.  The map is accessed with  *)
(* no lock, so the statements of the two handlers interleave.  wbody[p] is  *)
(* the set of records getCustomerSlices collected for p's response.         *)

\* The request body is read and decoded; the id is validated.
ConcRead(p) ==
    /\ ~crashed
    /\ pc[p] = "idle"
    /\ \E b \in ConcBodies :
         LET r == Request("POST", "/customers", FALSE, << >>, b.wellFormed, b.obj)
             read == readCustomerFromRequestBody(r)
         IN  IF read.err \/ read.customer.Id = 0
             THEN /\ wstatus' = [wstatus EXCEPT ![p] = StatusBadRequest]
                  /\ pc' = [pc EXCEPT ![p] = "done"]
                  /\ UNCHANGED customer
             ELSE /\ customer' = [customer EXCEPT ![p] = read.customer]
                  /\ pc' = [pc EXCEPT ![p] = "check"]
                  /\ UNCHANGED wstatus
    /\ UNCHANGED <<customers, exist, wbody, crashed, seqVars>>

\* _, exist := customers[customer.Id]
ConcCheck(p) ==
    /\ ~crashed
    /\ pc[p] = "check"
    /\ LET found == customer[p].Id \in DOMAIN customers
       IN  /\ exist' = [exist EXCEPT ![p] = found]
           /\ IF found
              THEN /\ wstatus' = [wstatus EXCEPT ![p] = StatusConflict]
                   /\ pc' = [pc EXCEPT ![p] = "encode"]
              ELSE /\ pc' = [pc EXCEPT ![p] = "write"]
                   /\ UNCHANGED wstatus
    /\ UNCHANGED <<customers, customer, wbody, crashed, seqVars>>

\* The assignment as it would be under a lock that covers check and insert:
\* a record that has appeared since the check is kept and reported as 409.
ConcWriteIfAbsent(p) ==
    /\ ~crashed
    /\ pc[p] = "write"
    /\ IF customer[p].Id \in DOMAIN customers
       THEN /\ wstatus' = [wstatus EXCEPT ![p] = StatusConflict]
            /\ UNCHANGED customers
       ELSE /\ customers' = MapAssign(customers, customer[p].Id, customer[p])
            /\ wstatus' = [wstatus EXCEPT ![p] = StatusCreated]
    /\ pc' = [pc EXCEPT ![p] = "encode"]
    /\ UNCHANGED <<customer, exist, wbody, crashed, seqVars>>

\* customers[customer.Id] = customer; w.WriteHeader(http.StatusCreated)
ConcWrite(p) ==
    /\ ~crashed
    /\ pc[p] = "write"
    /\ customers' = MapAssign(customers, customer[p].Id, customer[p])
    /\ wstatus' = [wstatus EXCEPT ![p] = StatusCreated]
    /\ pc' = [pc EXCEPT ![p] = "encode"]
    /\ UNCHANGED <<customer, exist, wbody, crashed, seqVars>>

\* json.NewEncoder(w).Encode(getCustomerSlices())
ConcEncode(p) ==
    /\ ~crashed
    /\ pc[p] = "encode"
    /\ wbody' = [wbody EXCEPT ![p] = {customers[k] : k \in DOMAIN customers}]
    /\ pc' = [pc EXCEPT ![p] = "done"]
    /\ UNCHANGED <<customers, customer, exist, wstatus, crashed, seqVars>>

\* The handler returns; the goroutine is free for the next request.
ConcReturn(p) ==
    /\ ~crashed
    /\ pc[p] = "done"
    /\ pc' = [pc EXCEPT ![p] = "idle"]
    /\ customer' = [customer EXCEPT ![p] = ZeroCustomer]
    /\ exist' = [exist EXCEPT ![p] = FALSE]
    /\ wstatus' = [wstatus EXCEPT ![p] = 0]
    /\ wbody' = [wbody EXCEPT ![p] = {}]
    /\ UNCHANGED <<customers, crashed, seqVars>>

\* Two unsynchronised accesses to the map, one of them the assignment, are a
\* data race: the runtime may abort the process ("concurrent map writes",
\* "concurrent map read and map write") instead of performing them.
ConcFatal ==
    /\ ~crashed
    /\ \E p, q \in Procs :
         /\ p # q
         /\ pc[p] = "write"
         /\ pc[q] \in {"check", "write", "encode"}
    /\ crashed' = TRUE
    /\ UNCHANGED <<customers, pc, customer, exist, wstatus, wbody, seqVars>>

NextConc ==
    \/ \E p \in Procs : ConcRead(p)
    \/ \E p \in Procs : ConcCheck(p)
    \/ \E p \in Procs : ConcWrite(p)
    \/ \E p \in Procs : ConcEncode(p)
    \/ \E p \in Procs : ConcReturn(p)
    \/ ConcFatal

SpecConc == Init /\ [][NextConc]_vars
----------------------------------------------------------------------------
(* Vocabulary of the properties                                             *)

\* The step serves a request: the handler runs from start to end.
Served(method, route) ==
    /\ req = NoRequest
    /\ req'.method = method
    /\ req'.route = route

HasMember(obj, key) == \E i \in 1 .. Len(obj) : obj[i][1] = key

\* The value of the last member `key` of a JSON object, `zero` without one.
Member(obj, key, zero) ==
    IF HasMember(obj, key)
    THEN LET last == CHOOSE i \in 1 .. Len(obj) :
                        /\ obj[i][1] = key
                        /\ \A j \in (i + 1) .. Len(obj) : obj[j][1] # key
         IN  obj[last][2]
    ELSE zero

\* The record a JSON object denotes: absent members are zero values.
RecordOf(obj) ==
    Customer(Member(obj, "id", 0), Member(obj, "name", ""), Member(obj, "role", ""),
             Member(obj, "email", ""), Member(obj, "phone", ""),
             Member(obj, "contacted", FALSE))

\* The id a path variable denotes, -1 when it is no decimal number.
PathId(r) == IF ParseUint(r.givenId).err THEN -1 ELSE ParseUint(r.givenId).val

\* `list` holds every record of `store` exactly once and nothing else.
ListsExactly(list, store) ==
    /\ Len(list) = Cardinality(DOMAIN store)
    /\ \A k \in DOMAIN store :
          Cardinality({i \in 1 .. Len(list) : RecordOf(list[i]) = store[k]}) = 1
    /\ \A i \in 1 .. Len(list) : \E k \in DOMAIN store : RecordOf(list[i]) = store[k]

\* Every record but the one under id is the same in both maps.
SameExcept(old, new, id) ==
    /\ DOMAIN new \ {id} = DOMAIN old \ {id}
    /\ \A k \in DOMAIN old \ {id} : new[k] = old[k]

----------------------------------------------------------------------------
\* C1: in every reachable state every key of the Store is non-zero and the
\* record stored under key k has id field k.
C1_KeysNonZeroAndMatchIds ==
    \A k \in DOMAIN customers : k # 0 /\ customers[k].Id = k

\* A record was created under id 4, the record under 3 was replaced and the
\* record under 1 was deleted.
C1_Witness ==
    /\ 4 \in DOMAIN customers
    /\ 3 \in DOMAIN customers
    /\ customers[3] # SeedCustomers[3]
    /\ 1 \notin DOMAIN customers

\* C2: a create request whose well-formed body carries an id present in the
\* Store is answered 409 and leaves the Store exactly as it was.
C2_ConflictLeavesStore ==
    [][(/\ Served("POST", "/customers")
        /\ req'.wellFormed
        /\ RecordOf(req'.obj).Id \in DOMAIN customers)
       => (resp'.status = StatusConflict /\ customers' = customers)]_vars

\* A create for a stored id whose body differs from the stored record was
\* answered 409.
C2_Witness ==
    /\ req.method = "POST"
    /\ req.wellFormed
    /\ resp.status = StatusConflict
    /\ RecordOf(req.obj).Id = 1
    /\ customers[1] = SeedCustomers[1]
    /\ RecordOf(req.obj) # customers[1]

\* C3: a create request whose well-formed body carries a non-zero id absent
\* from the Store is answered 201 and inserts the body's record under that id,
\* every other record unchanged; a stored record changes or disappears only by
\* an update or a delete of its id answered 200; and a list request is answered
\* 200 with every stored record in its body.
C3_CreateInsertsAndStays ==
    [][/\ (/\ Served("POST", "/customers")
           /\ req'.wellFormed
           /\ RecordOf(req'.obj).Id # 0
           /\ RecordOf(req'.obj).Id \notin DOMAIN customers)
          => (/\ resp'.status = StatusCreated
              /\ RecordOf(req'.obj).Id \in DOMAIN customers'
              /\ customers'[RecordOf(req'.obj).Id] = RecordOf(req'.obj)
              /\ SameExcept(customers, customers', RecordOf(req'.obj).Id))
       /\ \A k \in DOMAIN customers :
            (k \notin DOMAIN customers' \/ customers'[k] # customers[k])
            => (/\ req'.method \in {"PUT", "DELETE"}
                /\ PathId(req') = k
                /\ resp'.status = StatusOK)
       /\ Served("GET", "/customers")
          => (/\ resp'.status = StatusOK
              /\ \A k \in DOMAIN customers :
                    \E i \in 1 .. Len(resp'.list) : RecordOf(resp'.list[i]) = customers[k])
      ]_vars

\* The record created under id 4 is in the body of a later list response.
C3_Witness ==
    /\ req.method = "GET"
    /\ req.route = "/customers"
    /\ 4 \in DOMAIN customers
    /\ customers[4] = RecordOf(NewObject(4))
    /\ \E i \in 1 .. Len(resp.list) : RecordOf(resp.list[i]) = customers[4]

\* C4: a create request whose body has id 0, or no id member, is answered 400
\* and the Store is unmodified, whatever the Store holds.
C4_ZeroIdRejected ==
    [][(/\ Served("POST", "/customers")
        /\ req'.wellFormed
        /\ (~HasMember(req'.obj, "id") \/ Member(req'.obj, "id", 0) = 0))
       => (resp'.status = StatusBadRequest /\ customers' = customers)]_vars

\* A create without an id member was answered 400 on a Store that is no longer
\* the seeded one.
C4_Witness ==
    /\ req.method = "POST"
    /\ req.wellFormed
    /\ ~HasMember(req.obj, "id")
    /\ resp.status = StatusBadRequest
    /\ customers # SeedCustomers

\* C5: an update request with a parseable path id and a well-formed body whose
\* id differs from the path id is answered 400 and leaves the Store untouched,
\* whether or not either id is in the Store.
C5_MismatchIs400 ==
    [][(/\ Served("PUT", "/customers/{id}")
        /\ req'.hasId
        /\ PathId(req') # -1
        /\ req'.wellFormed
        /\ RecordOf(req'.obj).Id # PathId(req'))
       => (resp'.status = StatusBadRequest /\ customers' = customers)]_vars

\* A mismatched update whose path id is not in the Store and whose body id is
\* in the Store was answered 400.
C5_Witness ==
    /\ req.method = "PUT"
    /\ req.hasId
    /\ PathId(req) = 4
    /\ req.wellFormed
    /\ RecordOf(req.obj).Id = 3
    /\ 4 \notin DOMAIN customers
    /\ 3 \in DOMAIN customers
    /\ resp.status = StatusBadRequest

\* C6: an update request whose body id equals the path id, that id being in the
\* Store, is answered 200 and replaces the record wholesale (a field without a
\* member in the body becomes its zero value); the ids of the Store and all
\* other records are unchanged; a get request for a stored id is answered 200
\* with the stored record.
C6_UpdateReplacesWholesale ==
    [][/\ (/\ Served("PUT", "/customers/{id}")
           /\ req'.hasId
           /\ req'.wellFormed
           /\ RecordOf(req'.obj).Id = PathId(req')
           /\ PathId(req') \in DOMAIN customers)
          => (/\ resp'.status = StatusOK
              /\ DOMAIN customers' = DOMAIN customers
              /\ customers'[PathId(req')] = RecordOf(req'.obj)
              /\ SameExcept(customers, customers', PathId(req')))
       /\ (/\ Served("GET", "/customers/{id}")
           /\ req'.hasId
           /\ PathId(req') \in DOMAIN customers)
          => (/\ resp'.status = StatusOK
              /\ Len(resp'.list) = 1
              /\ RecordOf(resp'.list[1]) = customers[PathId(req')])
      ]_vars

\* An update replaced the seeded record under id 3 by a body without email and
\* phone members: both fields are now empty.
C6_Witness ==
    /\ req.method = "PUT"
    /\ PathId(req) = 3
    /\ resp.status = StatusOK
    /\ ~HasMember(req.obj, "email")
    /\ customers[3].Name = "New Name"
    /\ customers[3].Email = ""
    /\ customers[3].Phone = ""

\* C7: a delete request for a stored id is answered 200 and removes exactly
\* that record; an id that is not in the Store comes back only by a create of
\* that id answered 201; a get or delete request for an id that is not in the
\* Store is answered 404 and leaves the Store unchanged.
C7_DeleteThenNotFound ==
    [][/\ (/\ Served("DELETE", "/customers/{id}")
           /\ req'.hasId
           /\ PathId(req') \in DOMAIN customers)
          => (/\ resp'.status = StatusOK
              /\ PathId(req') \notin DOMAIN customers'
              /\ SameExcept(customers, customers', PathId(req')))
       /\ \A k \in DOMAIN customers' \ DOMAIN customers :
             /\ req'.method = "POST"
             /\ RecordOf(req'.obj).Id = k
             /\ resp'.status = StatusCreated
       /\ (/\ Served("GET", "/customers/{id}") \/ Served("DELETE", "/customers/{id}")
           /\ req'.hasId
           /\ PathId(req') # -1
           /\ PathId(req') \notin DOMAIN customers)
          => (resp'.status = StatusNotFound /\ customers' = customers)
      ]_vars

\* The seeded record under id 2 was deleted and a further delete of id 2 was
\* answered 404.
C7_Witness ==
    /\ req.method = "DELETE"
    /\ req.hasId
    /\ PathId(req) = 2
    /\ 2 \notin DOMAIN customers
    /\ resp.status = StatusNotFound

\* C8: with no prior operations a list request is answered 200 with the three
\* seeded records in ascending id order, each with all six members, the
\* contacted member being false.
C8_SeedListedInOrderWithContacted ==
    (/\ req.method = "GET"
     /\ req.route = "/customers"
     /\ customers = SeedCustomers)
    => (/\ resp.status = StatusOK
        /\ Len(resp.list) = 3
        /\ \A i \in 1 .. Len(resp.list) :
              /\ Member(resp.list[i], "id", 0) = i
              /\ Len(resp.list[i]) = 6
              /\ HasMember(resp.list[i], "contacted")
              /\ Member(resp.list[i], "contacted", TRUE) = FALSE)

\* C10: when a create is answered 201 or 409, an update 200 or a delete 200,
\* the response body lists every record of the Store as it stands after the
\* operation exactly once and no other record.
C10_BodyIsStoreAfterOperation ==
    (\/ req.method = "POST" /\ resp.status \in {StatusCreated, StatusConflict}
     \/ req.method = "PUT" /\ resp.status = StatusOK
     \/ req.method = "DELETE" /\ resp.status = StatusOK)
    => (resp.kind = "array" /\ ListsExactly(resp.list, customers))

\* A delete of id 1 was answered 200 with a body of three records, the record
\* created under id 4 among them and none with id 1.
C10_Witness ==
    /\ req.method = "DELETE"
    /\ PathId(req) = 1
    /\ resp.status = StatusOK
    /\ Len(resp.list) = 3
    /\ \E i \in 1 .. Len(resp.list) : Member(resp.list[i], "id", 0) = 4
    /\ \A i \in 1 .. Len(resp.list) : Member(resp.list[i], "id", 0) # 1

\* C9: two create requests with the same non-zero id absent from the Store can
\* both pass the existence check before either writes; the handler that writes
\* second is then answered 201 like the first and its record replaces the
\* first one's; once both are done both were answered 201 and the Store holds
\* one of the two records under the id.
C9_BothCreatedOneOverwritten ==
    [][\A p, q \in Procs :
         /\ (/\ p # q
             /\ pc[p] = "write"
             /\ pc'[p] = "encode"
             /\ pc[q] \in {"encode", "done"}
             /\ ~exist[q]
             /\ customer[q].Id = customer[p].Id)
            => (/\ wstatus[q] = StatusCreated
                /\ wstatus'[q] = StatusCreated
                /\ wstatus'[p] = StatusCreated
                /\ customers[customer[p].Id] = customer[q]
                /\ customers'[customer[p].Id] = customer[p]
                /\ SameExcept(customers, customers', customer[p].Id))
         /\ (/\ p # q
             /\ pc'[p] = "done"
             /\ pc'[q] = "done"
             /\ customer'[p].Id # 0
             /\ customer'[p].Id = customer'[q].Id
             /\ ~exist'[p]
             /\ ~exist'[q])
            => (/\ wstatus'[p] = StatusCreated
                /\ wstatus'[q] = StatusCreated
                /\ customers'[customer'[p].Id] \in {customer'[p], customer'[q]})
      ]_vars

\* Both handlers are done and were answered 201 for id 4 with different
\* records; the Store holds the record of handler 2, and the record of
\* handler 1, listed in its own response, is in the Store no more.
C9_Witness ==
    /\ ~crashed
    /\ pc[1] = "done"
    /\ pc[2] = "done"
    /\ ~exist[1]
    /\ ~exist[2]
    /\ wstatus[1] = StatusCreated
    /\ wstatus[2] = StatusCreated
    /\ customer[1].Id = 4
    /\ customer[2].Id = 4
    /\ customer[1] # customer[2]
    /\ customers[4] = customer[2]
    /\ customer[1] \in wbody[1]
    /\ \A k \in DOMAIN customers : customers[k] # customer[1]
====
